---- MODULE Spec2Model ----
(***************************************************************************)
(* The GBCE market (src/src/stockmarket/exchange/market.py) and its        *)
(* securities (src/src/stockmarket/stock/models.py) as a state machine.    *)
(*                                                                         *)
(* Python objects live in `heap` (a reference is an index into it); the    *)
(* market's dict `stocks` is a sequence of (key, reference) entries in     *)
(* insertion order.  The clock `now` is datetime.now() in whole minutes.   *)
(* Floats are exact fractions [num, den]; the index is the root-th root of *)
(* a fraction.  `result` is the outcome of the last call: the exception it *)
(* raised ("none" when it returned) and the value it returned.             *)
(***************************************************************************)
EXTENDS Integers, Sequences, FiniteSets, TLC

VARIABLES heap, stocks, now, result

vars == <<heap, stocks, now, result>>

(* ------------------------------ bounds -------------------------------- *)

\* Trades held by all securities together.
MaxTrades == 2
\* The clock stops advancing here.
MaxTime == 10
\* Securities constructed by callers, beyond the five seeded ones.
MaxNew == 1
\* The highest price passed to a valuation.
MaxPrice == 100

(* ------------------------------ inputs -------------------------------- *)

\* (trade_type, quantity, price) of the calls to market.record_trade
Orders ==
    { <<"buy", 2, 100>>, <<"sell", 1, 0>>,
      <<"sell", 0, 25>>, <<"buy", -1, 100>> }
\* (trade_type, quantity, price) of the calls to stock.record_trade
DirectOrders == { <<"sell", 1, 25>>, <<"buy", 0, 25>> }
\* Symbols callers use: a seeded one, a new one, and one never added.
Symbols == {"TEA", "XTEST", "NOPE"}
\* Timestamps a caller passes explicitly (None: the clock's value is used).
Stamps == {0}
\* Minutes the clock advances by in one step.
Steps == {5}
\* Lookback windows callers ask for, the default among them.
DefaultMinutes == 5
Windows == {1, DefaultMinutes}
\* timestamp=None
None == -1
NoRef == 0

(* ----------------------------- fractions ------------------------------ *)

Frac(n, d) == [num |-> n, den |-> d, root |-> 1]
Zero == Frac(0, 1)
FracPos(a) == a.num * a.den > 0

(* ------------------------- models.py: Trade --------------------------- *)

Trade(stock_symbol, trade_type, quantity, price, timestamp) ==
    [stock_symbol |-> stock_symbol, trade_type |-> trade_type,
     quantity |-> quantity, price |-> price, timestamp |-> timestamp]

(* ------------------------- models.py: Stock --------------------------- *)

\* Stock.__init__; fixed_dividend is held in hundredths (0.02 is 2).
Stock(symbol, stock_type, last_dividend, fixed_dividend, par_value) ==
    [symbol |-> symbol, stock_type |-> stock_type,
     last_dividend |-> last_dividend, fixed_dividend |-> fixed_dividend,
     par_value |-> par_value, trades |-> <<>>]

CommonStock(symbol, last_dividend, par_value) ==
    Stock(symbol, "common", last_dividend, 0, par_value)

PreferredStock(symbol, last_dividend, fixed_dividend, par_value) ==
    Stock(symbol, "preferred", last_dividend, fixed_dividend, par_value)

\* Stock.record_trade putting the new Trade first (insert(0, trade)).
Stock_record_trade_Prepend(self, trade_type, quantity, price, timestamp, clock) ==
    LET ts == IF timestamp = None THEN clock ELSE timestamp
        trade == Trade(self.symbol, trade_type, quantity, price, ts)
    IN  [self EXCEPT !.trades = <<trade>> \o @]

\* Stock.record_trade dropping the trades older than the default window
\* before it appends.
Stock_record_trade_Prune(self, trade_type, quantity, price, timestamp, clock) ==
    LET ts == IF timestamp = None THEN clock ELSE timestamp
        trade == Trade(self.symbol, trade_type, quantity, price, ts)
        Kept(t) == t.timestamp >= clock - DefaultMinutes
    IN  [self EXCEPT !.trades = Append(SelectSeq(@, Kept), trade)]

\* Stock.record_trade: the security with the new Trade appended.
Stock_record_trade(self, trade_type, quantity, price, timestamp, clock) ==
    LET ts == IF timestamp = None THEN clock ELSE timestamp
        trade == Trade(self.symbol, trade_type, quantity, price, ts)
    IN  [self EXCEPT !.trades = Append(@, trade)]

\* Stock.get_trades_in_last_minutes leaving out the boundary (> for >=).
get_trades_in_last_minutes_Strict(self, minutes, clock) ==
    LET cutoff_time == clock - minutes
        Recent(trade) == trade.timestamp > cutoff_time
    IN  SelectSeq(self.trades, Recent)

\* Stock.get_trades_in_last_minutes
get_trades_in_last_minutes(self, minutes, clock) ==
    LET cutoff_time == clock - minutes
        Recent(trade) == trade.timestamp >= cutoff_time
    IN  SelectSeq(self.trades, Recent)

RECURSIVE SumPQ(_)
SumPQ(ts) ==
    IF ts = <<>> THEN 0 ELSE Head(ts).price * Head(ts).quantity + SumPQ(Tail(ts))

RECURSIVE SumQ(_)
SumQ(ts) ==
    IF ts = <<>> THEN 0 ELSE Head(ts).quantity + SumQ(Tail(ts))

\* Stock.calculate_volume_weighted_stock_price: [exc, value]
calculate_volume_weighted_stock_price(self, minutes, clock) ==
    LET recent_trades == get_trades_in_last_minutes(self, minutes, clock)
        total_trade_price_quantity == SumPQ(recent_trades)
        total_quantity == SumQ(recent_trades)
    IN  IF total_quantity = 0
        THEN [exc |-> "ValueError", value |-> Zero]
        ELSE [exc |-> "none",
              value |-> Frac(total_trade_price_quantity, total_quantity)]

(* -------------------- models.py: yield and P/E ratio ------------------ *)

PriceMessage == "Price must be greater than zero."
DividendMessage == "Dividend is zero, P/E Ratio is undefined."

\* raise exc(msg) and return value, as the outcome of a valuation
Raise(exc, msg) == [exc |-> exc, msg |-> msg, value |-> Zero]
Return(value) == [exc |-> "none", msg |-> "", value |-> value]

\* Python's n / d
truediv(n, d) ==
    IF d = 0
    THEN Raise("ZeroDivisionError", "division by zero")
    ELSE Return(Frac(n, d))

\* CommonStock.calculate_dividend_yield letting a price of zero through
\* (< for <=).
CommonStock_calculate_dividend_yield_ZeroAllowed(self, price) ==
    IF price < 0
    THEN Raise("ValueError", PriceMessage)
    ELSE truediv(self.last_dividend, price)

\* CommonStock.calculate_dividend_yield
CommonStock_calculate_dividend_yield(self, price) ==
    IF price <= 0
    THEN Raise("ValueError", PriceMessage)
    ELSE truediv(self.last_dividend, price)

\* PreferredStock.calculate_dividend_yield not overridden: the yield of a
\* common stock.
PreferredStock_calculate_dividend_yield_LastDividend(self, price) ==
    IF price <= 0
    THEN Raise("ValueError", PriceMessage)
    ELSE truediv(self.last_dividend, price)

\* PreferredStock.calculate_dividend_yield; fixed_dividend is in hundredths.
PreferredStock_calculate_dividend_yield(self, price) ==
    IF price <= 0
    THEN Raise("ValueError", PriceMessage)
    ELSE truediv(self.fixed_dividend * self.par_value, 100 * price)

\* self.calculate_dividend_yield(price), dispatched on the security's class
calculate_dividend_yield(self, price) ==
    IF self.stock_type = "preferred"
    THEN PreferredStock_calculate_dividend_yield(self, price)
    ELSE CommonStock_calculate_dividend_yield(self, price)

\* Stock.calculate_pe_ratio without the test of the dividend.
calculate_pe_ratio_Unchecked(self, price) ==
    LET y == calculate_dividend_yield(self, price)
    IN  IF y.exc # "none"
        THEN y
        ELSE LET dividend == Frac(y.value.num * price, y.value.den)
             IN  truediv(price * dividend.den, dividend.num)

\* Stock.calculate_pe_ratio: an exception of calculate_dividend_yield
\* propagates.
calculate_pe_ratio(self, price) ==
    LET y == calculate_dividend_yield(self, price)
    IN  IF y.exc # "none"
        THEN y
        ELSE LET dividend == Frac(y.value.num * price, y.value.den)
             IN  IF dividend.num = 0
                 THEN Raise("ValueError", DividendMessage)
                 ELSE truediv(price * dividend.den, dividend.num)

(* ------------------------- market.py: GBCE ---------------------------- *)

Keys(d) == {d[i].key : i \in DOMAIN d}

\* dict.get: the reference stored under the key, or NoRef (Python's None)
get_stock(d, symbol) ==
    IF symbol \in Keys(d)
    THEN d[CHOOSE i \in DOMAIN d : d[i].key = symbol].ref
    ELSE NoRef

\* self.stocks.setdefault(key, ref): an existing key keeps its security.
dict_set_KeepFirst(d, key, ref) ==
    IF key \in Keys(d)
    THEN d
    ELSE Append(d, [key |-> key, ref |-> ref])

\* self.stocks[key] = ref: an existing key keeps its place, a new one goes last
dict_set(d, key, ref) ==
    IF key \in Keys(d)
    THEN [i \in DOMAIN d |->
            IF d[i].key = key THEN [key |-> key, ref |-> ref] ELSE d[i]]
    ELSE Append(d, [key |-> key, ref |-> ref])

\* GBCE.add_Stock storing the security under its kind
\* (self.stocks[stock.stock_type] = stock).
add_Stock_KeyedByType(d, h, stock) == dict_set(d, h[stock].stock_type, stock)

\* GBCE.add_Stock
add_Stock(d, h, stock) == dict_set(d, h[stock].symbol, stock)

\* GBCE.list_stocks: list(self.stocks.values())
list_stocks(d) == [i \in DOMAIN d |-> d[i].ref]

\* GBCE.record_trade letting a quantity of zero through (< for <=).
record_trade_ZeroAllowed(d, h, symbol, trade_type, quantity, price, clock) ==
    IF quantity < 0
    THEN [exc |-> "InvalidTradeError", heap |-> h]
    ELSE LET stock == get_stock(d, symbol)
         IN  IF stock # NoRef
             THEN [exc |-> "none",
                   heap |-> [h EXCEPT ![stock] =
                       Stock_record_trade(@, trade_type, quantity, price,
                                          None, clock)]]
             ELSE [exc |-> "KeyError", heap |-> h]

\* GBCE.record_trade returning quietly for an unknown symbol (no else branch).
record_trade_NoRaise(d, h, symbol, trade_type, quantity, price, clock) ==
    IF quantity <= 0
    THEN [exc |-> "InvalidTradeError", heap |-> h]
    ELSE LET stock == get_stock(d, symbol)
         IN  IF stock # NoRef
             THEN [exc |-> "none",
                   heap |-> [h EXCEPT ![stock] =
                       Stock_record_trade(@, trade_type, quantity, price,
                                          None, clock)]]
             ELSE [exc |-> "none", heap |-> h]

\* GBCE.record_trade looking the symbol up before it tests the quantity.
record_trade_LookupFirst(d, h, symbol, trade_type, quantity, price, clock) ==
    LET stock == get_stock(d, symbol)
    IN  IF stock = NoRef
        THEN [exc |-> "KeyError", heap |-> h]
        ELSE IF quantity <= 0
        THEN [exc |-> "InvalidTradeError", heap |-> h]
        ELSE [exc |-> "none",
              heap |-> [h EXCEPT ![stock] =
                  Stock_record_trade(@, trade_type, quantity, price,
                                     None, clock)]]

\* GBCE.record_trade: [exc, heap]
record_trade(d, h, symbol, trade_type, quantity, price, clock) ==
    IF quantity <= 0
    THEN [exc |-> "InvalidTradeError", heap |-> h]
    ELSE LET stock == get_stock(d, symbol)
         IN  IF stock # NoRef
             THEN [exc |-> "none",
                   heap |-> [h EXCEPT ![stock] =
                       Stock_record_trade(@, trade_type, quantity, price,
                                          None, clock)]]
             ELSE [exc |-> "KeyError", heap |-> h]

\* The loop of GBCE.calculate_gbce_all_share_index over self.stocks.values():
\* [exc, prices].  Only NoTradeError is caught; any other exception leaves
\* the loop and the call.
RECURSIVE collect_prices(_, _, _, _)
collect_prices(values, h, clock, prices) ==
    IF values = <<>>
    THEN [exc |-> "none", prices |-> prices]
    ELSE LET r == calculate_volume_weighted_stock_price(
                      h[Head(values)], DefaultMinutes, clock)
         IN  IF r.exc = "NoTradeError"
             THEN collect_prices(Tail(values), h, clock, prices)
             ELSE IF r.exc # "none"
             THEN [exc |-> r.exc, prices |-> prices]
             ELSE IF FracPos(r.value)
             THEN collect_prices(Tail(values), h, clock,
                                 Append(prices, r.value))
             ELSE collect_prices(Tail(values), h, clock, prices)

\* math.prod over fractions
RECURSIVE prod(_)
prod(prices) ==
    IF prices = <<>>
    THEN Frac(1, 1)
    ELSE LET rest == prod(Tail(prices))
         IN  Frac(Head(prices).num * rest.num, Head(prices).den * rest.den)

\* GBCE.calculate_gbce_all_share_index: [exc, value], the value being
\* prod(prices) ** (1 / len(prices))
calculate_gbce_all_share_index(d, h, clock) ==
    LET c == collect_prices(list_stocks(d), h, clock, <<>>)
    IN  IF c.exc # "none"
        THEN [exc |-> c.exc, value |-> Zero]
        ELSE IF c.prices = <<>>
        THEN [exc |-> "none", value |-> Zero]
        ELSE [exc |-> "none",
              value |-> [prod(c.prices) EXCEPT !.root = Len(c.prices)]]

(* --------------------------- the state machine ------------------------ *)

\* GBCE.__init__: the five seeded securities, in the dict's order.  The
\* keyword calls are read with each class's own kind and, for a common
\* stock, fixed_dividend 0.
SeedStocks ==
    << CommonStock("TEA", 0, 100),
       CommonStock("POP", 8, 100),
       CommonStock("ALE", 23, 60),
       PreferredStock("GIN", 8, 2, 100),
       CommonStock("JOE", 13, 250) >>

Outcome(op, exc, ref, minutes, value) ==
    [op |-> op, exc |-> exc, ref |-> ref, minutes |-> minutes, value |-> value]

RECURSIVE CountTrades(_, _)
CountTrades(h, i) ==
    IF i = 0 THEN 0 ELSE Len(h[i].trades) + CountTrades(h, i - 1)

TotalTrades == CountTrades(heap, Len(heap))

\* Securities a caller constructs: one under a new symbol, one under a
\* symbol the market already holds.
NewStocks ==
    {CommonStock("XTEST", 1, 10), PreferredStock("TEA", 8, 0, 100)}

\* References a caller holds: what get_stock gives for the symbols in use,
\* and the securities the caller constructed.
RefsHeld ==
    ({get_stock(stocks, s) : s \in Symbols} \ {NoRef})
    \cup {i \in DOMAIN heap : i > Len(SeedStocks)}

Init ==
    /\ heap = SeedStocks
    /\ stocks = [i \in DOMAIN SeedStocks |->
                    [key |-> SeedStocks[i].symbol, ref |-> i]]
    /\ now = 0
    /\ result = Outcome("init", "none", NoRef, 0, Zero)

\* Time passes.
Tick(minutes) ==
    /\ now + minutes <= MaxTime
    /\ now' = now + minutes
    /\ result' = Outcome("tick", "none", NoRef, 0, Zero)
    /\ UNCHANGED <<heap, stocks>>

\* A caller constructs a security (it is not in the market yet); each of
\* NewStocks is constructed once.
NewStock(stock) ==
    /\ Len(heap) < Len(SeedStocks) + MaxNew
    /\ \A i \in DOMAIN heap : i > Len(SeedStocks) => heap[i].symbol # stock.symbol
    /\ heap' = Append(heap, stock)
    /\ result' = Outcome("new", "none", NoRef, 0, Zero)
    /\ UNCHANGED <<stocks, now>>

\* market.add_Stock(stock)
AddStock(stock) ==
    /\ stocks' = add_Stock(stocks, heap, stock)
    /\ result' = Outcome("add_Stock", "none", NoRef, 0, Zero)
    /\ UNCHANGED <<heap, now>>

\* market.record_trade(symbol, trade_type, quantity, price)
MarketRecordTrade(symbol, trade_type, quantity, price) ==
    LET r == record_trade(stocks, heap, symbol, trade_type, quantity, price, now)
    IN  /\ r.exc = "none" => TotalTrades < MaxTrades
        /\ heap' = r.heap
        /\ result' = Outcome("record_trade", r.exc, NoRef, 0, Zero)
        /\ UNCHANGED <<stocks, now>>

\* stock.record_trade(trade_type, quantity, price, timestamp) on a security
\* the caller holds
StockRecordTrade(stock, trade_type, quantity, price, timestamp) ==
    /\ TotalTrades < MaxTrades
    /\ heap' = [heap EXCEPT ![stock] =
                  Stock_record_trade(@, trade_type, quantity, price,
                                     timestamp, now)]
    /\ result' = Outcome("Stock.record_trade", "none", NoRef, 0, Zero)
    /\ UNCHANGED <<stocks, now>>

\* stock.calculate_volume_weighted_stock_price(minutes)
VolumeWeightedStockPrice(stock, minutes) ==
    LET r == calculate_volume_weighted_stock_price(heap[stock], minutes, now)
    IN  /\ result' = Outcome("vwsp", r.exc, stock, minutes, r.value)
        /\ UNCHANGED <<heap, stocks, now>>

\* market.calculate_gbce_all_share_index()
AllShareIndex ==
    LET r == calculate_gbce_all_share_index(stocks, heap, now)
    IN  /\ result' = Outcome("index", r.exc, NoRef, 0, r.value)
        /\ UNCHANGED <<heap, stocks, now>>

MarketNext ==
    \/ \E minutes \in Steps : Tick(minutes)
    \/ \E stock \in NewStocks : NewStock(stock)
    \/ \E stock \in RefsHeld : AddStock(stock)
    \/ \E symbol \in Symbols, o \in Orders :
            MarketRecordTrade(symbol, o[1], o[2], o[3])
    \/ \E stock \in RefsHeld, minutes \in Windows :
            VolumeWeightedStockPrice(stock, minutes)
    \/ AllShareIndex

Next ==
    \/ MarketNext
    \/ \E stock \in RefsHeld, o \in DirectOrders, timestamp \in Stamps :
            StockRecordTrade(stock, o[1], o[2], o[3], timestamp)

\* Every operation of the market and of the securities it holds.
Spec == Init /\ [][Next]_vars

\* The market's own operations only: securities are fresh when added and
\* trades are recorded through the market.
MarketSpec == Init /\ [][MarketNext]_vars

(* --------------------- valuations of one security --------------------- *)

\* Securities of either class over the attribute values of the seeded ones
\* and zero.
Dividends == {0, 8, 23}
Rates == {0, 2}
ParValues == {0, 100}
Securities ==
    {Stock("TEST", t, ld, fd, pv) :
        t \in {"common", "preferred"}, ld \in Dividends,
        fd \in Rates, pv \in ParValues}
\* Prices callers pass to the valuations.
Prices == -1 .. MaxPrice

Valuation(op, r, ref, price) ==
    [op |-> op, exc |-> r.exc, msg |-> r.msg, ref |-> ref, price |-> price,
     value |-> r.value]

\* One security, constructed and not added to any market.
ValuationInit ==
    /\ heap \in {<<s>> : s \in Securities}
    /\ stocks = <<>>
    /\ now = 0
    /\ result = Outcome("init", "none", NoRef, 0, Zero)

\* stock.calculate_dividend_yield(price)
DividendYield(stock, price) ==
    /\ result' = Valuation("dividend_yield",
                           calculate_dividend_yield(heap[stock], price),
                           stock, price)
    /\ UNCHANGED <<heap, stocks, now>>

\* stock.calculate_pe_ratio(price)
PeRatio(stock, price) ==
    /\ result' = Valuation("pe_ratio",
                           calculate_pe_ratio(heap[stock], price),
                           stock, price)
    /\ UNCHANGED <<heap, stocks, now>>

ValuationNext ==
    \/ \E stock \in DOMAIN heap, price \in Prices : DividendYield(stock, price)
    \/ \E stock \in DOMAIN heap, price \in Prices : PeRatio(stock, price)

\* The valuations of a security, for every security of Securities.
ValuationSpec == ValuationInit /\ [][ValuationNext]_vars

(* ------------------------- what the claims read ----------------------- *)

IsPrefix(a, b) == Len(a) <= Len(b) /\ SubSeq(b, 1, Len(a)) = a

\* The positions of a history whose timestamp is at or after clock - minutes.
InWindow(trades, minutes, clock) ==
    {i \in DOMAIN trades : trades[i].timestamp >= clock - minutes}

RECURSIVE QtyOver(_, _)
QtyOver(trades, S) ==
    IF S = {} THEN 0
    ELSE LET i == CHOOSE i \in S : TRUE
         IN  trades[i].quantity + QtyOver(trades, S \ {i})

RECURSIVE PriceQtyOver(_, _)
PriceQtyOver(trades, S) ==
    IF S = {} THEN 0
    ELSE LET i == CHOOSE i \in S : TRUE
         IN  trades[i].price * trades[i].quantity + PriceQtyOver(trades, S \ {i})

\* The securities of the mapping.
Listed == {stocks[i].ref : i \in DOMAIN stocks}

WindowQty(ref) ==
    QtyOver(heap[ref].trades, InWindow(heap[ref].trades, DefaultMinutes, now))

WindowPriceQty(ref) ==
    PriceQtyOver(heap[ref].trades,
                 InWindow(heap[ref].trades, DefaultMinutes, now))

\* The securities of the mapping with a volume-weighted price > 0 in the
\* default window.
Priced ==
    {ref \in Listed : WindowQty(ref) # 0 /\ WindowPriceQty(ref) * WindowQty(ref) > 0}

RECURSIVE QtyProduct(_)
QtyProduct(S) ==
    IF S = {} THEN 1
    ELSE LET x == CHOOSE x \in S : TRUE
         IN  WindowQty(x) * QtyProduct(S \ {x})

RECURSIVE PriceQtyProduct(_)
PriceQtyProduct(S) ==
    IF S = {} THEN 1
    ELSE LET x == CHOOSE x \in S : TRUE
         IN  WindowPriceQty(x) * PriceQtyProduct(S \ {x})

\* value is the geometric mean of the prices of Priced.
IsGeometricMean(value) ==
    /\ value.root = Cardinality(Priced)
    /\ value.den # 0
    /\ value.num * QtyProduct(Priced) = PriceQtyProduct(Priced) * value.den

(* -------------------------------- C1 ---------------------------------- *)

\* C1: market.record_trade with quantity <= 0, for any symbol, direction and
\* price and from any state, raises InvalidTradeError and leaves every
\* security's trade history (and the mapping) as it was.
C1_InvalidQuantityRejected ==
    [][result'.op = "record_trade" =>
         \A symbol \in Symbols, o \in Orders :
            (o[2] <= 0 /\ MarketRecordTrade(symbol, o[1], o[2], o[3]))
               => /\ result'.exc = "InvalidTradeError"
                  /\ heap' = heap
                  /\ stocks' = stocks]_vars

\* The last call was rejected with InvalidTradeError in a market that holds
\* a security with trades.
C1_Witness ==
    /\ result.op = "record_trade"
    /\ result.exc = "InvalidTradeError"
    /\ \E ref \in Listed : heap[ref].trades # <<>>

(* -------------------------------- C2 ---------------------------------- *)

\* C2: market.record_trade with quantity > 0 for a symbol that is no key of
\* the mapping raises KeyError (UnknownSecurity) and leaves the mapping as it
\* was: same keys, same securities, same trade histories.
C2_UnknownSymbolRejected ==
    [][result'.op = "record_trade" =>
         \A symbol \in Symbols, o \in Orders :
            (/\ o[2] > 0
             /\ symbol \notin Keys(stocks)
             /\ MarketRecordTrade(symbol, o[1], o[2], o[3]))
               => /\ result'.exc = "KeyError"
                  /\ stocks' = stocks
                  /\ heap' = heap]_vars

\* The last call was rejected with KeyError by a market that holds a sixth
\* security and a security with trades.
C2_Witness ==
    /\ result.op = "record_trade"
    /\ result.exc = "KeyError"
    /\ Len(stocks) > Len(SeedStocks)
    /\ \E ref \in Listed : heap[ref].trades # <<>>

(* -------------------------------- C3 ---------------------------------- *)

\* C3: market.record_trade with quantity > 0 for a symbol of the mapping
\* returns, and appends exactly one Trade to the end of that security's
\* history, carrying the security's symbol, the given direction, quantity and
\* price and the clock's value; the history grows by one, the keys of the
\* mapping and every other security are unchanged.
C3_TradeAppended ==
    [][result'.op = "record_trade" =>
         \A symbol \in Symbols, o \in Orders :
            (/\ o[2] > 0
             /\ symbol \in Keys(stocks)
             /\ MarketRecordTrade(symbol, o[1], o[2], o[3]))
               => LET ref == get_stock(stocks, symbol)
                  IN  /\ result'.exc = "none"
                      /\ heap'[ref].trades =
                           Append(heap[ref].trades,
                                  Trade(heap[ref].symbol, o[1], o[2], o[3], now))
                      /\ Len(heap'[ref].trades) = Len(heap[ref].trades) + 1
                      /\ Keys(stocks') = Keys(stocks)
                      /\ DOMAIN heap' = DOMAIN heap
                      /\ \A other \in DOMAIN heap \ {ref} :
                           heap'[other] = heap[other]]_vars

\* The last call recorded a trade after an earlier one in the same history.
C3_Witness ==
    /\ result.op = "record_trade"
    /\ result.exc = "none"
    /\ \E ref \in Listed :
         /\ Len(heap[ref].trades) >= 2
         /\ heap[ref].trades[Len(heap[ref].trades)].timestamp = now

(* -------------------------------- C4 ---------------------------------- *)

C5_HistoryAppendOnly ==
    [][\A ref \in DOMAIN heap :
         /\ ref \in DOMAIN heap'
         /\ IsPrefix(heap[ref].trades, heap'[ref].trades)]_vars

\* A query has just run on a market where a history of two trades still holds
\* a trade older than the default window.
C5_Witness ==
    /\ result.op \in {"vwsp", "index"}
    /\ \E ref \in DOMAIN heap :
         /\ Len(heap[ref].trades) >= 2
         /\ heap[ref].trades[1].timestamp < now - DefaultMinutes
         /\ heap[ref].trades[2].timestamp >= now - DefaultMinutes

(* -------------------------------- C6 ---------------------------------- *)

\* C6: for any history and window w, when the trades with timestamp >=
\* now - w (boundary included, whatever the insertion order) have a total
\* quantity other than zero, calculate_volume_weighted_stock_price(w) returns
\* sum(price * quantity) / sum(quantity) over exactly those trades; older
\* trades do not enter the result.
C6_VwspOverWindow ==
    result.op = "vwsp" =>
        LET trades == heap[result.ref].trades
            R == InWindow(trades, result.minutes, now)
        IN  QtyOver(trades, R) # 0 =>
                /\ result.exc = "none"
                /\ result.value.den # 0
                /\ result.value.root = 1
                /\ result.value.num * QtyOver(trades, R)
                     = PriceQtyOver(trades, R) * result.value.den

\* A price was returned for a history recorded out of time order, with one
\* trade exactly on the window's boundary and inside, and one outside.
C6_Witness ==
    /\ result.op = "vwsp"
    /\ result.exc = "none"
    /\ \E i, j \in DOMAIN heap[result.ref].trades :
         LET trades == heap[result.ref].trades
         IN  /\ i < j
             /\ trades[i].timestamp > trades[j].timestamp
             /\ trades[j].timestamp < now - result.minutes
             /\ trades[i].timestamp >= now - result.minutes
             /\ trades[i].quantity > 0
             /\ trades[j].quantity > 0

(* -------------------------------- C7 ---------------------------------- *)

\* C7: calculate_volume_weighted_stock_price(w) raises NoTradeError, and no
\* other error, whenever no trade is inside the window or the total quantity
\* inside it is zero.
C7_NoTradesError ==
    result.op = "vwsp" =>
        LET trades == heap[result.ref].trades
            R == InWindow(trades, result.minutes, now)
        IN  (R = {} \/ QtyOver(trades, R) = 0) => result.exc = "NoTradeError"

(* -------------------------------- C8 ---------------------------------- *)

C11_DividendYield ==
    (result.op = "dividend_yield" /\ result.price > 0) =>
        LET self == heap[result.ref]
        IN  /\ result.exc = "none"
            /\ result.value.den # 0
            /\ result.value.root = 1
            /\ self.stock_type = "common" =>
                 result.value.num * result.price
                    = self.last_dividend * result.value.den
            /\ self.stock_type = "preferred" =>
                 result.value.num * 100 * result.price
                    = self.fixed_dividend * self.par_value * result.value.den

\* A preferred stock with last dividend 8, rate 0.02 and par value 100 has
\* yielded 0.02 at price 100.
C11_Witness ==
    /\ result.op = "dividend_yield"
    /\ result.exc = "none"
    /\ result.price = 100
    /\ heap[result.ref] = Stock("TEST", "preferred", 8, 2, 100)
    /\ result.value.num * 100 = 2 * result.value.den

(* -------------------------------- C12 --------------------------------- *)

\* C12: calculate_dividend_yield(p) with p <= 0 raises the ValueError for an
\* invalid price, on a common and on a preferred stock and whatever the
\* dividend attributes are; it returns no value and raises no
\* ZeroDivisionError.
C12_InvalidPrice ==
    (result.op = "dividend_yield" /\ result.price <= 0) =>
        /\ result.exc = "ValueError"
        /\ result.msg = PriceMessage

\* The yield of a common stock with last dividend 0 was asked for at price 0.
C12_Witness ==
    /\ result.op = "dividend_yield"
    /\ result.price = 0
    /\ result.exc = "ValueError"
    /\ heap[result.ref].stock_type = "common"
    /\ heap[result.ref].last_dividend = 0

(* -------------------------------- C13 --------------------------------- *)

C14_LastWriteWins ==
    [][result'.op = "add_Stock" =>
         \A stock \in RefsHeld :
            AddStock(stock) =>
               LET symbol == heap[stock].symbol
               IN  /\ result'.exc = "none"
                   /\ get_stock(stocks', symbol) = stock
                   /\ heap'[get_stock(stocks', symbol)].trades
                        = heap[stock].trades
                   /\ Len(stocks') = IF symbol \in Keys(stocks)
                                     THEN Len(stocks)
                                     ELSE Len(stocks) + 1
                   /\ Keys(stocks') = Keys(stocks) \cup {symbol}
                   /\ \A k \in Keys(stocks) \ {symbol} :
                        get_stock(stocks', k) = get_stock(stocks, k)
                   /\ heap' = heap]_vars

\* add_Stock has just run on a market where "TEA" is the security a caller
\* constructed, whose history differs from the non-empty history of the
\* seeded "TEA" it replaced.
C14_Witness ==
    /\ result.op = "add_Stock"
    /\ get_stock(stocks, "TEA") > Len(SeedStocks)
    /\ heap[1].trades # <<>>
    /\ heap[get_stock(stocks, "TEA")].trades # heap[1].trades

(* -------------------------------- C15 --------------------------------- *)

\* C15: in every state reached from GBCE() by add_Stock and record_trade
\* calls, every security of the mapping is stored under its own symbol, no
\* two entries share a key or a symbol, and every Trade in the history of
\* the security under key k carries the symbol k.
C15_KeyedBySymbol ==
    /\ \A i \in DOMAIN stocks :
         /\ stocks[i].ref \in DOMAIN heap
         /\ heap[stocks[i].ref].symbol = stocks[i].key
         /\ \A t \in DOMAIN heap[stocks[i].ref].trades :
              heap[stocks[i].ref].trades[t].stock_symbol = stocks[i].key
    /\ \A i, j \in DOMAIN stocks :
         (\/ stocks[i].key = stocks[j].key
          \/ heap[stocks[i].ref].symbol = heap[stocks[j].ref].symbol) => i = j

\* The market holds a sixth security, added under "XTEST", with a trade in
\* its history, and a seeded security with a trade.
C15_Witness ==
    /\ Len(stocks) = Len(SeedStocks) + 1
    /\ heap[get_stock(stocks, "XTEST")].trades # <<>>
    /\ heap[get_stock(stocks, "TEA")].trades # <<>>

(* -------------------------------- C16 --------------------------------- *)

\* C16: market.record_trade tests the quantity before it looks the symbol
\* up: a call with quantity <= 0 for a symbol that is no key of the mapping
\* raises InvalidTradeError, not KeyError, and a call that raises KeyError
\* had quantity > 0.
C16_QuantityBeforeSymbol ==
    [][result'.op = "record_trade" =>
         \A symbol \in Symbols, o \in Orders :
            MarketRecordTrade(symbol, o[1], o[2], o[3]) =>
               /\ (o[2] <= 0 /\ symbol \notin Keys(stocks))
                     => result'.exc = "InvalidTradeError"
               /\ result'.exc = "KeyError" => o[2] > 0]_vars

\* A call was rejected with InvalidTradeError by a market that holds neither
\* "XTEST" nor "NOPE", two of the three symbols callers pass.
C16_Witness ==
    /\ result.op = "record_trade"
    /\ result.exc = "InvalidTradeError"
    /\ "XTEST" \notin Keys(stocks)
    /\ "NOPE" \notin Keys(stocks)

(* -------------------------------- C17 --------------------------------- *)

====
